---- MODULE Spec2Model ----
(***************************************************************************)
(* Model of build-for-compare.py: the build orchestration of main(), the   *)
(* path guard safe_path() and the disassembly pass objdump_all().          *)
(*                                                                         *)
(* Strings are sequences of one-character strings, so that prefix tests,   *)
(* splitting and normalisation are computed as Python computes them.       *)
(***************************************************************************)
EXTENDS Integers, Sequences, FiniteSets, TLC

VARIABLES
    TMPDIR,   \* module constant TMPDIR = tempfile.gettempdir()
    cwd,      \* the process's current working directory
    pc,       \* position of main() in its code
    args,     \* the parsed command line (argparse namespace)
    fs,       \* the filesystem: absolute path -> what is stored there
    log,      \* history: guard evaluations and commands run, in order
    status,   \* exit status of the process once it has ended, else "running"
    i,        \* index into args.commitids of the revision loop
    e,        \* index into args.executables of the executable loop
    reported, \* the comparison commands have been emitted
    sp,       \* harness of safe_path: the path given and the value returned
    od,       \* harness of objdump_all: disassembler outputs, files written
    prev      \* what an earlier run of main() with the same command line left

vars == <<TMPDIR, cwd, pc, args, fs, log, status, i, e, reported, sp, od, prev>>

mainVars == <<pc, args, fs, log, status, i, e, reported, prev>>

-----------------------------------------------------------------------------
(* Bounds *)

\* longest path string given to safe_path in its harness
MaxPathLen == 5

-----------------------------------------------------------------------------
(* Strings *)

SeqsUpTo(S, n) == UNION {[1..k -> S] : k \in 0..n}

startswith(s, p) == Len(p) <= Len(s) /\ SubSeq(s, 1, Len(p)) = p

endswith(s, p) == Len(p) <= Len(s) /\ SubSeq(s, Len(s) - Len(p) + 1, Len(s)) = p

\* s[n:] of Python, n counted from 0
From(s, n) == SubSeq(s, n + 1, Len(s))

RECURSIVE SplitAcc(_, _, _, _)
SplitAcc(s, k, cur, acc) ==
    IF k > Len(s) THEN Append(acc, cur)
    ELSE IF s[k] = "/" THEN SplitAcc(s, k + 1, <<>>, Append(acc, cur))
    ELSE SplitAcc(s, k + 1, Append(cur, s[k]), acc)

\* s.split('/'): the pieces between the slashes, empty pieces included
split(s) == SplitAcc(s, 1, <<>>, <<>>)

RECURSIVE JoinSep(_)
\* '/'.join(comps)
JoinSep(comps) ==
    IF comps = <<>> THEN <<>>
    ELSE IF Len(comps) = 1 THEN comps[1]
    ELSE comps[1] \o <<"/">> \o JoinSep(Tail(comps))

\* os.path.join(a, b)
join(a, b) ==
    IF startswith(b, <<"/">>) THEN b
    ELSE IF a = <<>> \/ endswith(a, <<"/">>) THEN a \o b
    ELSE a \o <<"/">> \o b

\* number of leading slashes os.path.normpath keeps: 0, 1, or 2 for exactly two
InitialSlashes(p) ==
    IF ~startswith(p, <<"/">>) THEN 0
    ELSE IF startswith(p, <<"/", "/">>) /\ ~startswith(p, <<"/", "/", "/">>) THEN 2
    ELSE 1

RECURSIVE NormComps(_, _, _)
\* the component loop of os.path.normpath
NormComps(comps, new, slashes) ==
    IF comps = <<>> THEN new
    ELSE LET c == Head(comps)
             rest == Tail(comps)
         IN IF c = <<>> \/ c = <<".">> THEN NormComps(rest, new, slashes)
            ELSE IF c # <<".", ".">>
                    \/ (slashes = 0 /\ new = <<>>)
                    \/ (new # <<>> /\ new[Len(new)] = <<".", ".">>)
                 THEN NormComps(rest, Append(new, c), slashes)
            ELSE IF new # <<>> THEN NormComps(rest, SubSeq(new, 1, Len(new) - 1), slashes)
            ELSE NormComps(rest, new, slashes)

\* os.path.normpath(p)
normpath(p) ==
    LET slashes == InitialSlashes(p)
        body == JoinSep(NormComps(split(p), <<>>, slashes))
        out == [k \in 1..slashes |-> "/"] \o body
    IN IF out = <<>> THEN <<".">> ELSE out

\* os.path.abspath(p) with the working directory d
abspath(p, d) == normpath(IF startswith(p, <<"/">>) THEN p ELSE join(d, p))

-----------------------------------------------------------------------------
(* safe_path *)

\* the conjunction safe_path returns: more than one component, and the
\* string prefix test against TMPDIR
safe_path_test(comps, ap, root) == Len(comps) > 1 /\ startswith(ap, root)

safe_path_at(path, d, root) ==
    LET ap == abspath(path, d)
    IN IF ap[1] # "/" THEN FALSE
       ELSE safe_path_test(split(From(ap, 1)), ap, root)

safe_path(path) == safe_path_at(path, cwd, TMPDIR)

\* the non-empty components of the absolute form of a path
Components(path, d) ==
    SelectSeq(split(abspath(path, d)), LAMBDA c : c # <<>>)

\* what the guard is documented to decide: the absolute form of the path lies
\* under the root and has at least one component below it
StrictlyBelow(path, d, root) ==
    LET a == Components(path, d)
        r == Components(root, d)
    IN Len(a) > Len(r) /\ SubSeq(a, 1, Len(r)) = r

-----------------------------------------------------------------------------
(* Harness of safe_path: every short path, two roots, three directories *)

PathChars == {"/", ".", "t", "x"}

TmpRoots == {<<"/", "t">>, <<"/", "t", "/", "x">>}

WorkDirs == {<<"/">>, <<"/", "t">>, <<"/", "x">>}

SpIdle == [path |-> <<>>, called |-> FALSE, result |-> FALSE]

OdIdle == [phase |-> "idle", written |-> {}]

\* no earlier run: this is the first
PrevNone == [runs |-> 0, fs |-> <<>>, made |-> {}, status |-> "none"]

MainIdle ==
    /\ pc = "idle"
    /\ args = <<>>
    /\ fs = <<>>
    /\ log = <<>>
    /\ status = "idle"
    /\ i = 0
    /\ e = 0
    /\ reported = FALSE
    /\ prev = PrevNone

InitSafePath ==
    /\ TMPDIR \in TmpRoots
    /\ cwd \in WorkDirs
    /\ sp \in [path : SeqsUpTo(PathChars, MaxPathLen), called : {FALSE}, result : {FALSE}]
    /\ od = OdIdle
    /\ MainIdle

CallSafePath ==
    /\ ~sp.called
    /\ sp' = [sp EXCEPT !.called = TRUE, !.result = safe_path(sp.path)]
    /\ UNCHANGED <<TMPDIR, cwd, od, mainVars>>

NextSafePath == CallSafePath

SpecSafePath == InitSafePath /\ [][NextSafePath]_vars

\* C2: safe_path(P) is true exactly when the absolute form of P lies under the
\* temporary root with at least one component below it; the root itself and a
\* path sharing the root only as a string prefix are rejected.
SafePathIffStrictlyBelow ==
    sp.called => (sp.result <=> StrictlyBelow(sp.path, cwd, TMPDIR))

-----------------------------------------------------------------------------
(* objdump_all *)

\* finite maps, as Python dicts
Get(m, k, default) == IF k \in DOMAIN m THEN m[k] ELSE default

Put(m, k, v) == [x \in DOMAIN m \cup {k} |-> IF x = k THEN v ELSE m[x]]

EmptyMap == [x \in {} |-> <<>>]

\* The lines a disassembler output is made of here. Two ordinary section
\* headers, a header whose section name itself contains '.rodata', an
\* instruction line and a relocation line against .rodata.
HdrF == "Disassembly of section .text.f:"

HdrG == "Disassembly of section .text.g:"

HdrR == "Disassembly of section .rodata.r:"

Insn == "   0: push %rbp"

Reloc == "   ebc: R_X86_64_32 .rodata+0x1944"

Lines == {HdrF, HdrG, HdrR, Insn, Reloc}

\* re.match('^Disassembly of section (.*):$', line)
IsHeader(line) == line \in {HdrF, HdrG, HdrR}

\* match.group(1)
HeaderName(line) ==
    CASE line = HdrF -> <<".text.f">>
      [] line = HdrG -> <<".text.g">>
      [] line = HdrR -> <<".rodata.r">>

\* mutant: no line is filtered out
HasRodata_never(line) == FALSE

\* '.rodata' in line
HasRodata(line) == line \in {HdrR, Reloc}

RECURSIVE Sectionize(_, _, _)
\* the loop over out.splitlines(): sections[funcname] collects the lines
\* that do not mention .rodata, funcname being the last header seen
Sectionize(lines, funcname, sections) ==
    IF lines = <<>> THEN sections
    ELSE LET line == Head(lines)
             fn == IF IsHeader(line) THEN HeaderName(line) ELSE funcname
             kept == IF ~HasRodata(line)
                     THEN Put(sections, fn, Append(Get(sections, fn, <<>>), line))
                     ELSE sections
         IN Sectionize(Tail(lines), fn, kept)

RECURSIVE JoinLines(_)
\* '\n'.join(lines)
JoinLines(lines) ==
    IF lines = <<>> THEN <<>>
    ELSE IF Len(lines) = 1 THEN <<lines[1]>>
    ELSE <<lines[1], "\n">> \o JoinLines(Tail(lines))

\* hashlib.sha1(x.encode()).hexdigest(), taken to be injective; a digest
\* holds no path separator
sha1(x) == <<"sha1">> \o [k \in DOMAIN x |-> IF x[k] = "/" THEN "%2F" ELSE x[k]]

\* mutant: the digest is taken of the text
SectionFileName_text(section, text) == sha1(text) \o <<".dis">>

\* the file name a section is written under: the digest of the section's name
SectionFileName(section, text) == sha1(section) \o <<".dis">>

\* the sections of one object file that are written: the named ones
NamedSections(sections) == {n \in DOMAIN sections : n # <<>>}

\* the directory after the sections of one object file have been written
WriteSections(dir, tgtdir, sections) ==
    LET named == NamedSections(sections)
        outname(n) == join(tgtdir, SectionFileName(n, JoinLines(sections[n])))
        files == {outname(n) : n \in named}
    IN [f \in DOMAIN dir \cup files |->
            IF f \in files
            THEN JoinLines(sections[CHOOSE n \in named : outname(n) = f])
            ELSE dir[f]]

-----------------------------------------------------------------------------
(* Harness of objdump_all: two object files, every short disassembler output *)

\* most lines in one disassembler output
MaxLines == 3

\* the object files iterate_objs yields, in its order
ObjNames == <<<<"a", ".o">>, <<"s", "/", "b", ".o">>>>

\* the analysis directory of the revision
AnalysisDir == <<"/", "t", "/", "c", "/", "a">>

InitObjdump ==
    /\ TMPDIR = <<"/", "t">>
    /\ cwd = <<"/", "t", "/", "r">>
    /\ sp = SpIdle
    /\ MainIdle
    /\ \E outs \in [1..Len(ObjNames) -> SeqsUpTo(Lines, MaxLines)] :
         od = [phase |-> "loop", tgtdir |-> AnalysisDir, k |-> 1, out |-> outs,
               written |-> {}, dir |-> EmptyMap]

\* one iteration of the loop over iterate_objs(srcdir), the disassembler
\* having exited with rc
ObjdumpOne(rc) ==
    /\ od.phase = "loop"
    /\ od.k <= Len(ObjNames)
    /\ IF rc # 0
       THEN od' = [od EXCEPT !.phase = "raised"]
       ELSE LET sections == Sectionize(od.out[od.k], <<>>, EmptyMap)
                recs == {[obj |-> ObjNames[od.k], section |-> n,
                          text |-> JoinLines(sections[n]),
                          file |-> SectionFileName(n, JoinLines(sections[n]))] :
                         n \in NamedSections(sections)}
            IN od' = [od EXCEPT !.k = od.k + 1,
                                !.written = od.written \cup recs,
                                !.dir = WriteSections(od.dir, od.tgtdir, sections)]
    /\ UNCHANGED <<TMPDIR, cwd, sp, mainVars>>

\* the loop is exhausted and objdump_all returns
ObjdumpReturn ==
    /\ od.phase = "loop"
    /\ od.k > Len(ObjNames)
    /\ od' = [od EXCEPT !.phase = "done"]
    /\ UNCHANGED <<TMPDIR, cwd, sp, mainVars>>

NextObjdump ==
    \/ \E rc \in {0, 1} : ObjdumpOne(rc)
    \/ ObjdumpReturn

SpecObjdump == InitObjdump /\ [][NextObjdump]_vars

EverySectionTextPersisted ==
    od.phase = "done" =>
        \A w \in od.written :
            \E f \in DOMAIN od.dir : od.dir[f] = w.text

-----------------------------------------------------------------------------
(* Revision identifiers: int(commit, 16) *)

HexDigits == {"0", "1", "2", "3", "4", "5", "6", "7", "8", "9",
              "a", "b", "c", "d", "e", "f", "A", "B", "C", "D", "E", "F"}

Whitespace == {" ", "\t", "\n"}

RECURSIVE lstrip(_)
lstrip(s) == IF s # <<>> /\ Head(s) \in Whitespace THEN lstrip(Tail(s)) ELSE s

RECURSIVE rstrip(_)
rstrip(s) ==
    IF s # <<>> /\ s[Len(s)] \in Whitespace THEN rstrip(SubSeq(s, 1, Len(s) - 1)) ELSE s

\* digits with single underscores between them, as int() reads them
DigitsOk(s) ==
    /\ s # <<>>
    /\ s[1] \in HexDigits
    /\ s[Len(s)] \in HexDigits
    /\ \A k \in 1..Len(s) : s[k] \in HexDigits \cup {"_"}
    /\ \A k \in 1..(Len(s) - 1) : ~(s[k] = "_" /\ s[k + 1] = "_")

\* int(commit, 16) returns instead of raising ValueError: surrounding
\* whitespace, one sign, a 0x prefix and underscores are all read by int()
int16_ok(commit) ==
    LET t == rstrip(lstrip(commit))
        u == IF t # <<>> /\ t[1] \in {"+", "-"} THEN Tail(t) ELSE t
        hasPrefix == Len(u) >= 2 /\ u[1] = "0" /\ u[2] \in {"x", "X"}
        v == IF hasPrefix THEN From(u, 2) ELSE u
        w == IF hasPrefix /\ v # <<>> /\ v[1] = "_" THEN Tail(v) ELSE v
    IN DigitsOk(w)

-----------------------------------------------------------------------------
(* The filesystem: a map from absolute paths to what is stored there *)

Dir == [kind |-> "dir", rev |-> <<>>]

File(kind, rev) == [kind |-> kind, rev |-> rev]

\* os.path.dirname / os.path.basename of a normalised path
RECURSIVE LastSlash(_, _)
LastSlash(p, k) == IF k = 0 THEN 0 ELSE IF p[k] = "/" THEN k ELSE LastSlash(p, k - 1)

dirname(p) ==
    LET k == LastSlash(p, Len(p))
    IN IF k = 0 THEN <<>> ELSE IF k = 1 THEN <<"/">> ELSE SubSeq(p, 1, k - 1)

basename(p) == From(p, LastSlash(p, Len(p)))

\* p is q or lies below q
Within(p, q) == p = q \/ startswith(p, IF q = <<"/">> THEN q ELSE q \o <<"/">>)

RECURSIVE Ancestors(_)
\* the directories above an absolute path, the path itself included
Ancestors(p) ==
    IF p = <<"/">> \/ p = <<>> THEN {} ELSE {p} \cup Ancestors(dirname(p))

\* mkdir -p / os.makedirs(p, exist_ok=True)
MkdirP(f, p) ==
    [q \in DOMAIN f \cup Ancestors(p) |-> IF q \in DOMAIN f THEN f[q] ELSE Dir]

\* rm -rf p
RmRf(f, p) == [q \in {r \in DOMAIN f : ~Within(r, p)} |-> f[q]]

\* a file written at p, its directory being there
WriteFile(f, p, what) == [q \in DOMAIN f \cup {p} |-> IF q = p THEN what ELSE f[q]]

\* cp -r src dst / rsync -r src dst: the tree at src copied to dst
CopyTree(f, src, dst) ==
    LET moved == {q \in DOMAIN f : Within(q, src)}
        target(q) == dst \o From(q, Len(src))
        g == MkdirP(f, dirname(dst))
    IN [q \in DOMAIN g \cup {target(r) : r \in moved} |->
            IF \E r \in moved : target(r) = q
            THEN f[CHOOSE r \in moved : target(r) = q]
            ELSE g[q]]

-----------------------------------------------------------------------------
(* main(): inputs *)

\* most revision identifiers on one command line
MaxCommits == 2

\* the repository the tool is started in, and the temporary root
Cwd0 == <<"/", "w">>

Tmp == <<"/", "t">>

\* two hexadecimal identifiers and one that is not
Commits == {<<"a">>, <<"b">>, <<"g">>}

ExeK == <<"s", "/", "k">>

ExeQ == <<"q", "/", "k">>

\* --executables, after split(',')
ExeLists == {<<ExeK>>, <<ExeK, ExeQ>>}

\* --tgtdir: the default TMPDIR/compare, a relative directory, and the
\* working directory itself
TgtDirs == {<<"/", "t", "/", "c">>, <<"c">>, <<".">>}

\* --repodir: the default TMPDIR/repo, and a directory outside TMPDIR
RepoDirs == {<<"/", "t", "/", "r">>, <<"/", "w", "/", "r">>}

DEFAULT_PATCH == "stripbuildinfo.patch"

\* --patches: absent, or its comma separated list
PatchArgs == {[given |-> FALSE, list |-> <<>>],
              [given |-> TRUE, list |-> <<"p1.patch">>],
              [given |-> TRUE, list |-> <<"p1.patch", "p2.patch">>]}

\* dict(zip(keys, vals)): pairs up to the shorter length, a later pair
\* replacing an earlier one with the same key
DictZip(keys, vals) ==
    LET n == IF Len(keys) < Len(vals) THEN Len(keys) ELSE Len(vals)
        last(k) == CHOOSE j \in 1..n : keys[j] = k /\ \A h \in (j + 1)..n : keys[h] # k
    IN [k \in {keys[j] : j \in 1..n} |-> vals[last(k)]]

\* what may be on disk when the tool starts: nothing of the target directory,
\* the target directory alone, or the target directory with the directory
\* of revision a left by an earlier session
Stale == File("dis", <<"old">>)

FsBase == (Cwd0 :> Dir) @@ (Tmp :> Dir) @@ (join(Cwd0, <<".git">>) :> File("git", <<"0">>))

InitialFs(tgtdir, pre) ==
    LET t == abspath(tgtdir, Cwd0)
        a == join(t, <<"a">>)
    IN CASE pre = "none" -> FsBase
         [] pre = "tgt" -> MkdirP(FsBase, t)
         [] pre = "tgt+a" -> WriteFile(MkdirP(FsBase, a), join(a, <<"x.dis">>), Stale)

Init ==
    /\ TMPDIR = Tmp
    /\ cwd = Cwd0
    /\ pc = "parse"
    /\ \E ids \in SeqsUpTo(Commits, MaxCommits) \ {<<>>}, exes \in ExeLists,
          t \in TgtDirs, r \in RepoDirs, n \in BOOLEAN, o \in BOOLEAN,
          pa \in PatchArgs, pre \in {"none", "tgt", "tgt+a"} :
         /\ args = [commitids |-> ids, executables |-> exes, tgtdir |-> t,
                    repodir |-> r, nocopy |-> n, optOk |-> o,
                    patchesArg |-> pa, patches |-> EmptyMap]
         /\ fs = InitialFs(t, pre)
    /\ log = <<>>
    /\ status = "running"
    /\ i = 0
    /\ e = 0
    /\ reported = FALSE
    /\ sp = SpIdle
    /\ od = OdIdle
    /\ prev = PrevNone

-----------------------------------------------------------------------------
(* main(): helpers *)

Abs(p) == abspath(p, cwd)

\* an entry of the history
Ev(op, arg, ok) == [op |-> op, arg |-> arg, ok |-> ok, idx |-> i, x |-> e, cwd |-> cwd]

\* exit(1): SystemExit is no Exception, the handler of main() lets it pass
Exit1 == pc' = "exited" /\ status' = 1

\* check_call raises when the command returns non-zero
Failed(rc) == rc # 0

\* mutant: every staging directory is let through
RepoRefused_never(nocopy, safe) == FALSE

\* line 270: the staging directory is refused
RepoRefused(nocopy, safe) == ~nocopy /\ ~safe

\* mutant: removal is offered whatever the guard said
MayDelete_always(safe) == TRUE

\* line 287: removal of the target directory is offered
MayDelete(safe) == safe

\* mutant: only the lower case answer counts
Confirmed_lower(answer) == answer = "y"

\* line 289: the operator's answer is a yes
Confirmed(answer) == answer = "y" \/ answer = "Y"

\* mutant: os.makedirs(commitdir, exist_ok=True) never raises
MakedirsRaises_never(f, p) == FALSE

\* line 340: os.makedirs(commitdir) raises FileExistsError
MakedirsRaises(f, p) == p \in DOMAIN f

\* mutant: no clause of its own, the failure reaches the handler of main()
OnPatchFailure_handler == "handler"

\* lines 353-356: what a failing 'git apply' leads to
OnPatchFailure == "exit1"

commit == args.commitids[i]

commitdir == join(args.tgtdir, commit)

commitdir_obj == join(args.tgtdir, commit \o <<".o">>)

stripbuildinfopatch ==
    IF commit \in DOMAIN args.patches THEN args.patches[commit] ELSE DEFAULT_PATCH

name == args.executables[e]

target_name == join(args.tgtdir, basename(name) \o <<".">> \o commit)

gitdir == join(args.repodir, <<".git">>)

\* the revision checked out in the tree at the working directory
HeadRev == fs[join(cwd, <<".git">>)].rev

\* mutant: only the revision directory just made is removed, what earlier
\* builds left in the tree stays
GitClean_kept(f, tree) == f

\* git clean -f -x -d in tree: everything but the repository data goes
GitClean(f, tree) ==
    [q \in {r \in DOMAIN f : ~Within(r, tree) \/ r = tree
                              \/ Within(r, join(tree, <<".git">>))} |-> f[q]]

\* the files iterate_objs(srcdir) yields: those whose name ends in OBJEXT
OBJEXT == <<".o">>

\* os.walk(top) with the working directory d: every directory at or below top,
\* with the string it is reported by: top itself, and below it
\* os.path.join(root, name) from one level to the next
walk(f, top, d) ==
    LET a == abspath(top, d)
        rel(q) == From(q, IF a = <<"/">> THEN 1 ELSE Len(a) + 1)
    IN IF a \notin DOMAIN f \/ f[a].kind # "dir" THEN {}
       ELSE {[dir |-> q, root |-> IF q = a THEN top ELSE join(top, rel(q))] :
                q \in {r \in DOMAIN f : Within(r, a) /\ f[r].kind = "dir"}}

\* the files of the directory at q
FilesIn(f, q) == {basename(r) : r \in {x \in DOMAIN f : x # q /\ dirname(x) = q /\ f[x].kind # "dir"}}

\* iterate_objs(srcdir): for every root of the walk, root[len(srcdir)+1:]
\* joined with each file name that ends in OBJEXT
iterate_objs(f, srcdir, d) ==
    UNION {{join(From(w.root, Len(srcdir) + 1), filename) :
                filename \in {n \in FilesIn(f, w.dir) : endswith(n, OBJEXT)}} :
           w \in walk(f, srcdir, d)}

\* mutant: the directory part of the name is dropped
OutName_flat(tgtdir, objname) == join(tgtdir, basename(objname))

\* line 174: outname = os.path.join(tgtdir, objname)
OutName(tgtdir, objname) == join(tgtdir, objname)

RECURSIVE CopyEach(_, _, _, _, _)
\* lines 174-176 for each object name: the directory of outname is made, the
\* file is copied
CopyEach(f, objs, srcdir, tgtdir, d) ==
    IF objs = {} THEN f
    ELSE LET o == CHOOSE x \in objs : TRUE
             outname == abspath(OutName(tgtdir, o), d)
             from == abspath(join(srcdir, o), d)
         IN CopyEach(WriteFile(MkdirP(f, dirname(outname)), outname, f[from]),
                     objs \ {o}, srcdir, tgtdir, d)

\* shutil.copy raises when the file it is to copy is not there
CopyRaises(f, srcdir, d) ==
    \E o \in iterate_objs(f, srcdir, d) : abspath(join(srcdir, o), d) \notin DOMAIN f

\* copy_o_files(srcdir, tgtdir) with the working directory d
copy_o_files(f, srcdir, tgtdir, d) ==
    CopyEach(f, iterate_objs(f, srcdir, d), srcdir, tgtdir, d)

RECURSIVE DumpEach(_, _, _, _, _)
DumpEach(f, objs, srcdir, tgtdir, d) ==
    IF objs = {} THEN f
    ELSE LET o == CHOOSE x \in objs : TRUE
             outname == abspath(join(tgtdir, SectionFileName(o, <<>>)), d)
         IN DumpEach(WriteFile(MkdirP(f, dirname(outname)), outname,
                               File("dis", f[abspath(join(srcdir, o), d)].rev)),
                     objs \ {o}, srcdir, tgtdir, d)

\* objdump_all(srcdir, tgtdir) within main(): every object file taken to
\* hold one section, named after the object file
objdump_all(f, srcdir, tgtdir, d) ==
    DumpEach(f, iterate_objs(f, srcdir, d), srcdir, tgtdir, d)

-----------------------------------------------------------------------------
(* parse_arguments() and main(), one action per statement that acts *)

\* lines 258-268: the patch dictionary, and the check of --opt
Parse ==
    /\ pc = "parse"
    /\ args' = [args EXCEPT !.patches =
                    IF args.patchesArg.given
                    THEN DictZip(args.commitids, args.patchesArg.list)
                    ELSE EmptyMap]
    /\ IF ~args.optOk
       THEN Exit1
       ELSE pc' = "safety" /\ UNCHANGED status
    /\ UNCHANGED <<TMPDIR, cwd, fs, log, i, e, reported, sp, od, prev>>

\* lines 270-273: the guard on the staging directory, unless --nocopy
Safety ==
    /\ pc = "safety"
    /\ IF args.nocopy
       THEN pc' = "makedirs_tgt" /\ UNCHANGED <<log, status>>
       ELSE LET safe == safe_path(args.repodir)
            IN /\ log' = Append(log, Ev("guard_repo", args.repodir, safe))
               /\ IF RepoRefused(args.nocopy, safe)
                  THEN Exit1
                  ELSE pc' = "makedirs_tgt" /\ UNCHANGED status
    /\ UNCHANGED <<TMPDIR, cwd, args, fs, i, e, reported, sp, od, prev>>

\* lines 283-286: os.makedirs(args.tgtdir)
MakedirsTgt ==
    /\ pc = "makedirs_tgt"
    /\ IF Abs(args.tgtdir) \in DOMAIN fs
       THEN pc' = "guard_tgt" /\ UNCHANGED fs
       ELSE pc' = "validate" /\ fs' = MkdirP(fs, Abs(args.tgtdir))
    /\ UNCHANGED <<TMPDIR, cwd, args, log, status, i, e, reported, sp, od, prev>>

\* line 287: the guard on the target directory that is already there
GuardTgt ==
    /\ pc = "guard_tgt"
    /\ LET safe == safe_path(args.tgtdir)
       IN /\ log' = Append(log, Ev("guard_tgt", args.tgtdir, safe))
          /\ pc' = IF MayDelete(safe) THEN "input" ELSE "validate"
    /\ UNCHANGED <<TMPDIR, cwd, args, fs, status, i, e, reported, sp, od, prev>>

\* lines 288-289: the operator is asked; a closed stdin raises EOFError
Input(answer) ==
    /\ pc = "input"
    /\ log' = Append(log, [op |-> "input", arg |-> args.tgtdir, ok |-> answer # "EOF",
                           idx |-> i, x |-> e, cwd |-> cwd, answer |-> answer])
    /\ pc' = IF answer = "EOF" THEN "handler"
             ELSE IF Confirmed(answer) THEN "rm_tgt" ELSE "validate"
    /\ UNCHANGED <<TMPDIR, cwd, args, fs, status, i, e, reported, sp, od, prev>>

\* lines 291-292: rm -rf args.tgtdir
RmTgt(rc) ==
    /\ pc = "rm_tgt"
    /\ log' = Append(log, Ev("rm_rf", args.tgtdir, ~Failed(rc)))
    /\ IF Failed(rc)
       THEN pc' = "handler" /\ UNCHANGED fs
       ELSE pc' = "validate" /\ fs' = RmRf(fs, Abs(args.tgtdir))
    /\ UNCHANGED <<TMPDIR, cwd, args, status, i, e, reported, sp, od, prev>>

\* lines 294-300: every identifier must be read by int(commit, 16)
Validate ==
    /\ pc = "validate"
    /\ IF \E k \in 1..Len(args.commitids) : ~int16_ok(args.commitids[k])
       THEN Exit1
       ELSE pc' = "guard_repo" /\ UNCHANGED status
    /\ UNCHANGED <<TMPDIR, cwd, args, fs, log, i, e, reported, sp, od, prev>>

\* line 303: the guard on the staging directory, again, unless --nocopy
GuardRepo ==
    /\ pc = "guard_repo"
    /\ IF args.nocopy
       THEN pc' = "flags" /\ UNCHANGED log
       ELSE LET safe == safe_path(args.repodir)
            IN /\ log' = Append(log, Ev("guard_repo", args.repodir, safe))
               /\ pc' = IF safe THEN "which" ELSE "flags"
    /\ UNCHANGED <<TMPDIR, cwd, args, fs, status, i, e, reported, sp, od, prev>>

\* line 304: cmd_exists(rsync)
Which(found) ==
    /\ pc = "which"
    /\ pc' = IF found THEN "rsync" ELSE "mkdir"
    /\ UNCHANGED <<TMPDIR, cwd, args, fs, log, status, i, e, reported, sp, od, prev>>

\* lines 306-310: rsync -r --delete .git args.repodir
Rsync(rc) ==
    /\ pc = "rsync"
    /\ log' = Append(log, Ev("rsync", args.repodir, ~Failed(rc)))
    /\ IF Failed(rc)
       THEN pc' = "handler" /\ UNCHANGED fs
       ELSE /\ pc' = "chdir"
            /\ fs' = CopyTree(RmRf(fs, Abs(gitdir)), join(cwd, <<".git">>), Abs(gitdir))
    /\ UNCHANGED <<TMPDIR, cwd, args, status, i, e, reported, sp, od, prev>>

\* line 317: mkdir -p args.repodir
Mkdir(rc) ==
    /\ pc = "mkdir"
    /\ log' = Append(log, Ev("mkdir", args.repodir, ~Failed(rc)))
    /\ IF Failed(rc)
       THEN pc' = "handler" /\ UNCHANGED fs
       ELSE pc' = "touch" /\ fs' = MkdirP(fs, Abs(args.repodir))
    /\ UNCHANGED <<TMPDIR, cwd, args, status, i, e, reported, sp, od, prev>>

\* line 318: touch gitdir
Touch(rc) ==
    /\ pc = "touch"
    /\ log' = Append(log, Ev("touch", gitdir, ~Failed(rc)))
    /\ IF Failed(rc)
       THEN pc' = "handler" /\ UNCHANGED fs
       ELSE /\ pc' = "rm_git"
            /\ fs' = IF Abs(gitdir) \in DOMAIN fs THEN fs
                     ELSE WriteFile(fs, Abs(gitdir), File("empty", <<>>))
    /\ UNCHANGED <<TMPDIR, cwd, args, status, i, e, reported, sp, od, prev>>

\* line 319: rm -rf gitdir
RmGit(rc) ==
    /\ pc = "rm_git"
    /\ log' = Append(log, Ev("rm_rf", gitdir, ~Failed(rc)))
    /\ IF Failed(rc)
       THEN pc' = "handler" /\ UNCHANGED fs
       ELSE pc' = "cp" /\ fs' = RmRf(fs, Abs(gitdir))
    /\ UNCHANGED <<TMPDIR, cwd, args, status, i, e, reported, sp, od, prev>>

\* line 320: cp -r .git args.repodir
Cp(rc) ==
    /\ pc = "cp"
    /\ log' = Append(log, Ev("cp", args.repodir, ~Failed(rc)))
    /\ IF Failed(rc)
       THEN pc' = "handler" /\ UNCHANGED fs
       ELSE /\ pc' = "chdir"
            /\ fs' = CopyTree(fs, join(cwd, <<".git">>), Abs(gitdir))
    /\ UNCHANGED <<TMPDIR, cwd, args, status, i, e, reported, sp, od, prev>>

\* mutant: the working directory is left where it was
Chdir_skipped ==
    /\ pc = "chdir"
    /\ pc' = "flags"
    /\ UNCHANGED <<TMPDIR, cwd, args, fs, log, status, i, e, reported, sp, od, prev>>

\* line 322: os.chdir(args.repodir)
Chdir ==
    /\ pc = "chdir"
    /\ cwd' = Abs(args.repodir)
    /\ log' = Append(log, Ev("chdir", args.repodir, TRUE))
    /\ pc' = "flags"
    /\ UNCHANGED <<TMPDIR, args, fs, status, i, e, reported, sp, od, prev>>

\* lines 324-331: the make arguments and the preprocessor flags
Flags ==
    /\ pc = "flags"
    /\ pc' = "rev"
    /\ i' = 1
    /\ UNCHANGED <<TMPDIR, cwd, args, fs, log, status, e, reported, sp, od, prev>>

\* mutant: checkout before clean
NextPc_swapped(p) ==
    CASE p = "reset" -> "checkout"
      [] p = "checkout" -> "clean"
      [] p = "clean" -> "patch"
      [] p = "patch" -> "autogen"
      [] p = "autogen" -> "configure"
      [] p = "configure" -> "make"
      [] p = "make" -> "copy_exe"
      [] p = "copy_exe" -> "objcopy"
      [] p = "objcopy" -> "copy_o"
      [] p = "copy_o" -> "objdump"
      [] p = "objdump" -> "rev"

\* lines 344-380: the statement after each statement of the loop body
NextPc(p) ==
    CASE p = "reset" -> "clean"
      [] p = "clean" -> "checkout"
      [] p = "checkout" -> "patch"
      [] p = "patch" -> "autogen"
      [] p = "autogen" -> "configure"
      [] p = "configure" -> "make"
      [] p = "make" -> "copy_exe"
      [] p = "copy_exe" -> "objcopy"
      [] p = "objcopy" -> "copy_o"
      [] p = "copy_o" -> "objdump"
      [] p = "objdump" -> "rev"

\* mutant: the return code is not looked at
Call_unchecked(p, op, arg, rc, effect) ==
    /\ pc = p
    /\ log' = Append(log, Ev(op, arg, ~Failed(rc)))
    /\ pc' = NextPc(p)
    /\ fs' = effect

\* check_call(args) at position p: the command is run; a non-zero return
\* raises into the handler of main(), otherwise the next statement follows
\* with the command's effect on the filesystem
Call(p, op, arg, rc, effect) ==
    /\ pc = p
    /\ log' = Append(log, Ev(op, arg, ~Failed(rc)))
    /\ IF Failed(rc)
       THEN pc' = "handler" /\ UNCHANGED fs
       ELSE pc' = NextPc(p) /\ fs' = effect

\* lines 333-343, a revision whose directory is not there yet
RevBegin ==
    /\ pc = "rev"
    /\ i <= Len(args.commitids)
    /\ ~MakedirsRaises(fs, Abs(commitdir))
    /\ fs' = MkdirP(fs, Abs(commitdir))
    /\ log' = Append(log, Ev("makedirs", commitdir, TRUE))
    /\ pc' = "reset"
    /\ UNCHANGED <<TMPDIR, cwd, args, status, i, e, reported, sp, od, prev>>

\* lines 341-343: the directory exists; logged, and on to the next revision
RevSkip ==
    /\ pc = "rev"
    /\ i <= Len(args.commitids)
    /\ MakedirsRaises(fs, Abs(commitdir))
    /\ log' = Append(log, Ev("skip", commitdir, TRUE))
    /\ i' = i + 1
    /\ UNCHANGED <<TMPDIR, cwd, pc, args, fs, status, e, reported, sp, od, prev>>

\* line 344: git reset --hard
Reset(rc) ==
    /\ Call("reset", "reset", commit, rc, fs)
    /\ UNCHANGED <<TMPDIR, cwd, args, status, i, e, reported, sp, od, prev>>

\* line 345: git clean -f -x -d
Clean(rc) ==
    /\ Call("clean", "clean", commit, rc, GitClean(fs, cwd))
    /\ UNCHANGED <<TMPDIR, cwd, args, status, i, e, reported, sp, od, prev>>

\* line 346: git checkout commit
Checkout(rc) ==
    /\ Call("checkout", "checkout", commit, rc,
            WriteFile(fs, join(cwd, <<".git">>), File("git", commit)))
    /\ UNCHANGED <<TMPDIR, cwd, args, status, i, e, reported, sp, od, prev>>

\* lines 347-356: git apply of the patch; CalledProcessError ends the process
Patch(rc) ==
    /\ pc = "patch"
    /\ log' = Append(log, Ev("patch", stripbuildinfopatch, ~Failed(rc)))
    /\ IF Failed(rc)
       THEN IF OnPatchFailure = "exit1"
            THEN Exit1
            ELSE pc' = OnPatchFailure /\ UNCHANGED status
       ELSE pc' = NextPc("patch") /\ UNCHANGED status
    /\ UNCHANGED <<TMPDIR, cwd, args, fs, i, e, reported, sp, od, prev>>

\* line 358: ./autogen.sh
Autogen(rc) ==
    /\ Call("autogen", "autogen", commit, rc, fs)
    /\ UNCHANGED <<TMPDIR, cwd, args, status, i, e, reported, sp, od, prev>>

\* lines 359-365: ./configure with the fixed flags
Configure(rc) ==
    /\ Call("configure", "configure", commit, rc, fs)
    /\ e' = 1
    /\ UNCHANGED <<TMPDIR, cwd, args, status, i, reported, sp, od, prev>>

\* what make leaves in the tree for one executable: the executable and its
\* object file, both built from the revision checked out
Built(f, tree, exe, rev) ==
    LET bin == join(tree, exe)
        obj == join(tree, exe \o OBJEXT)
    IN WriteFile(WriteFile(MkdirP(f, dirname(bin)), bin, File("exe", rev)),
                 obj, File("obj", rev))

\* line 371: make -jN name
Make(rc) ==
    /\ Call("make", "make", name, rc, Built(fs, cwd, name, HeadRev))
    /\ UNCHANGED <<TMPDIR, cwd, args, status, i, e, reported, sp, od, prev>>

\* line 372: shutil.copy(name, target_name); raises when the directory of
\* target_name is not there
CopyExe ==
    /\ LET there == dirname(Abs(target_name)) \in DOMAIN fs
       IN Call("copy_exe", "copy_exe", target_name, IF there THEN 0 ELSE 1,
               WriteFile(fs, Abs(target_name), fs[Abs(name)]))
    /\ UNCHANGED <<TMPDIR, cwd, args, status, i, e, reported, sp, od, prev>>

\* lines 373-374: objcopy of the executable to target_name.stripped, then the
\* next executable or the end of the loop
Objcopy(rc) ==
    /\ pc = "objcopy"
    /\ dirname(Abs(target_name)) \in DOMAIN fs \/ Failed(rc)
    /\ log' = Append(log, Ev("objcopy", target_name \o <<".stripped">>, ~Failed(rc)))
    /\ IF Failed(rc)
       THEN pc' = "handler" /\ UNCHANGED <<fs, e>>
       ELSE /\ fs' = WriteFile(fs, Abs(target_name \o <<".stripped">>),
                               File("stripped", fs[Abs(name)].rev))
            /\ IF e < Len(args.executables)
               THEN pc' = "make" /\ e' = e + 1
               ELSE pc' = NextPc("objcopy") /\ e' = 0
    /\ UNCHANGED <<TMPDIR, cwd, args, status, i, reported, sp, od, prev>>

\* lines 376-377: copy_o_files('.', commitdir_obj)
CopyO ==
    /\ Call("copy_o", "copy_o", commitdir_obj,
            IF CopyRaises(fs, <<".">>, cwd) THEN 1 ELSE 0,
            copy_o_files(fs, <<".">>, commitdir_obj, cwd))
    /\ UNCHANGED <<TMPDIR, cwd, args, status, i, e, reported, sp, od, prev>>

\* lines 379-380: objdump_all(commitdir_obj, commitdir), then the next revision
Objdump(rc) ==
    /\ Call("objdump", "objdump", commitdir, rc,
            objdump_all(fs, commitdir_obj, commitdir, cwd))
    /\ i' = IF Failed(rc) THEN i ELSE i + 1
    /\ UNCHANGED <<TMPDIR, cwd, args, status, e, reported, sp, od, prev>>

\* lines 382-386: the loop is over; the comparison commands are logged when
\* more than one revision was asked for, and main() returns
Report ==
    /\ pc = "rev"
    /\ i > Len(args.commitids)
    /\ reported' = (Len(args.commitids) > 1)
    /\ pc' = "exited"
    /\ status' = 0
    /\ UNCHANGED <<TMPDIR, cwd, args, fs, log, i, e, sp, od, prev>>

\* lines 387-388: except Exception: the error is logged and main() returns
Handler ==
    /\ pc = "handler"
    /\ log' = Append(log, Ev("handler", <<>>, TRUE))
    /\ pc' = "exited"
    /\ status' = 0
    /\ UNCHANGED <<TMPDIR, cwd, args, fs, i, e, reported, sp, od, prev>>

Next ==
    \/ Parse
    \/ Safety
    \/ MakedirsTgt
    \/ GuardTgt
    \/ \E answer \in {"y", "Y", "n", "EOF"} : Input(answer)
    \/ \E rc \in {0, 1} : RmTgt(rc)
    \/ Validate
    \/ GuardRepo
    \/ \E found \in BOOLEAN : Which(found)
    \/ \E rc \in {0, 1} : Rsync(rc)
    \/ \E rc \in {0, 1} : Mkdir(rc)
    \/ \E rc \in {0, 1} : Touch(rc)
    \/ \E rc \in {0, 1} : RmGit(rc)
    \/ \E rc \in {0, 1} : Cp(rc)
    \/ Chdir
    \/ Flags
    \/ RevBegin
    \/ RevSkip
    \/ \E rc \in {0, 1} : Reset(rc)
    \/ \E rc \in {0, 1} : Clean(rc)
    \/ \E rc \in {0, 1} : Checkout(rc)
    \/ \E rc \in {0, 1} : Patch(rc)
    \/ \E rc \in {0, 1} : Autogen(rc)
    \/ \E rc \in {0, 1} : Configure(rc)
    \/ \E rc \in {0, 1} : Make(rc)
    \/ CopyExe
    \/ \E rc \in {0, 1} : Objcopy(rc)
    \/ CopyO
    \/ \E rc \in {0, 1} : Objdump(rc)
    \/ Report
    \/ Handler

Spec == Init /\ [][Next]_vars

-----------------------------------------------------------------------------
(* Properties of main() *)

LogIdx == 1..Len(log)

GuardOps == {"guard_repo", "guard_tgt"}

\* the commands that delete: rm -rf and rsync --delete
DestructiveOps == {"rm_rf", "rsync"}

StagingOps == {"rsync", "mkdir", "touch", "cp"}

StepOps == {"reset", "clean", "checkout", "patch", "autogen", "configure",
            "make", "copy_exe", "objcopy", "copy_o", "objdump"}

AbsOf(ev) == abspath(ev.arg, ev.cwd)

\* C1: rm -rf of the target directory, rsync --delete into the staging
\* directory and rm -rf of <staging>/.git are run only after safe_path was
\* evaluated to true on the directory they destroy (for .git: the staging
\* directory holding it), the guard itself holds of the destroyed path, and
\* never after the guard returned false for that directory.
DestructiveOnlyAfterGuard ==
    \A k \in LogIdx :
        log[k].op \in DestructiveOps =>
            /\ \E j \in 1..(k - 1) :
                   /\ log[j].op \in GuardOps
                   /\ log[j].ok
                   /\ Within(AbsOf(log[k]), AbsOf(log[j]))
            /\ safe_path_at(log[k].arg, log[k].cwd, TMPDIR)
            /\ \A j \in LogIdx :
                   (log[j].op \in GuardOps /\ Within(AbsOf(log[k]), AbsOf(log[j])))
                       => log[j].ok

\* both removals have been run in one run: the target directory, and
\* <staging>/.git of the copy fallback
C1Witness ==
    /\ \E k \in LogIdx : log[k].op = "rm_rf" /\ log[k].arg = args.tgtdir /\ log[k].ok
    /\ \E k \in LogIdx : log[k].op = "rm_rf" /\ log[k].arg = gitdir /\ log[k].ok

\* one or more characters, all of them hexadecimal digits
IsHexToken(s) == s # <<>> /\ \A k \in 1..Len(s) : s[k] \in HexDigits

\* C3: when some identifier of the batch is not hexadecimal, no delete,
\* mirroring, checkout or build operation is performed at any point of the
\* run, the removal of a target directory that was already there included.
InvalidBatchTouchesNothing ==
    (\E k \in 1..Len(args.commitids) : ~IsHexToken(args.commitids[k])) =>
        \A j \in LogIdx : log[j].op \notin DestructiveOps \cup StagingOps \cup StepOps

Steps == SelectSeq(log, LAMBDA ev : ev.op \in StepOps)

\* b is the step that comes right after step a
Follows(a, b) ==
    \/ /\ b.idx = a.idx
       /\ \/ a.op = "reset" /\ b.op = "clean"
          \/ a.op = "clean" /\ b.op = "checkout"
          \/ a.op = "checkout" /\ b.op = "patch"
          \/ a.op = "patch" /\ b.op = "autogen"
          \/ a.op = "autogen" /\ b.op = "configure"
          \/ a.op = "configure" /\ b.op = "make" /\ b.x = 1
          \/ a.op = "make" /\ b.op = "copy_exe" /\ b.x = a.x
          \/ a.op = "copy_exe" /\ b.op = "objcopy" /\ b.x = a.x
          \/ a.op = "objcopy" /\ b.op = "make" /\ b.x = a.x + 1
          \/ a.op = "objcopy" /\ b.op = "copy_o" /\ a.x = Len(args.executables)
          \/ a.op = "copy_o" /\ b.op = "objdump"
    \/ a.op = "objdump" /\ b.op = "reset" /\ b.idx > a.idx

\* C6: the steps of a revision run in the order reset, clean, checkout,
\* patch, configure, compile, object collection, analysis, each only after
\* the one before it succeeded, and a later revision starts only after the
\* one before it has finished its last step.
StepsInOrder ==
    /\ Steps # <<>> => Steps[1].op = "reset"
    /\ \A k \in 1..(Len(Steps) - 1) : Steps[k].ok /\ Follows(Steps[k], Steps[k + 1])

\* two revisions have both been built and analysed
C6Witness ==
    /\ \E k \in LogIdx : log[k].op = "objdump" /\ log[k].ok /\ log[k].idx = 1
    /\ \E k \in LogIdx : log[k].op = "objdump" /\ log[k].ok /\ log[k].idx = 2

\* the subprocesses whose non-zero return check_call or objdump_all raises on
RaisingOps == (StagingOps \cup StepOps \cup {"rm_rf"}) \ {"patch"}

\* C7: once a subprocess of the pipeline has returned non-zero, nothing more
\* is run, the comparison commands are not emitted, and the run ends in the
\* handler of main().
FailureAbortsRun ==
    \A k \in LogIdx :
        (log[k].op \in RaisingOps /\ ~log[k].ok) =>
            /\ \A j \in (k + 1)..Len(log) : log[j].op = "handler"
            /\ ~reported
            /\ pc \in {"handler", "exited"}
            /\ pc = "exited" => (log[Len(log)].op = "handler" /\ log[Len(log)].idx = log[k].idx)

\* the disassembler failed for the first of two revisions and the run is over
C7Witness ==
    /\ pc = "exited"
    /\ Len(args.commitids) = 2
    /\ \E k \in LogIdx : log[k].op = "objdump" /\ ~log[k].ok /\ log[k].idx = 1

\* C8: when git apply of the patch fails, the process ends at once with a
\* non-zero status: nothing is run after it, for this revision or a later one.
PatchFailureExits ==
    \A k \in LogIdx :
        (log[k].op = "patch" /\ ~log[k].ok) =>
            /\ k = Len(log)
            /\ pc = "exited"
            /\ status # 0

\* the patch failed for the first of two revisions
C8Witness ==
    /\ Len(args.commitids) = 2
    /\ \E k \in LogIdx : log[k].op = "patch" /\ ~log[k].ok /\ log[k].idx = 1

TurnOfExisting ==
    pc = "rev" /\ i <= Len(args.commitids) /\ Abs(commitdir) \in DOMAIN fs

\* C10: a revision whose directory already exists is skipped: no step is run
\* for it, the filesystem is left as it is, and the loop goes on to the next
\* revision.
ExistingRevisionSkipped ==
    /\ [][TurnOfExisting =>
            /\ fs' = fs
            /\ cwd' = cwd
            /\ status' = status
            /\ pc' = "rev"
            /\ i' = i + 1
            /\ log' = Append(log, Ev("skip", commitdir, TRUE))]_vars
    /\ [](\A k \in LogIdx : log[k].op = "skip" =>
              \A j \in LogIdx : log[j].idx = log[k].idx => log[j].op = "skip")

\* the first revision was skipped and the second built and analysed
C10Witness ==
    /\ \E k \in LogIdx : log[k].op = "skip" /\ log[k].idx = 1
    /\ \E k \in LogIdx : log[k].op = "objdump" /\ log[k].ok /\ log[k].idx = 2

-----------------------------------------------------------------------------
(* A second run: main() started again with the same command line *)

\* the revision directories a run has created, from its calls of os.makedirs
MadeBy(l) == {AbsOf(l[k]) : k \in {j \in 1..Len(l) : l[j].op = "makedirs"}}

\* the tool is started again, from the same directory and with the same
\* command line, after its first run has ended
Rerun ==
    /\ pc = "exited"
    /\ prev.runs = 0
    /\ prev' = [runs |-> 1, fs |-> fs, made |-> MadeBy(log), status |-> status]
    /\ pc' = "parse"
    /\ cwd' = Cwd0
    /\ args' = [args EXCEPT !.patches = EmptyMap]
    /\ log' = <<>>
    /\ status' = "running"
    /\ i' = 0
    /\ e' = 0
    /\ reported' = FALSE
    /\ UNCHANGED <<TMPDIR, fs, sp, od>>

\* the first of the two runs: started on a disk that holds no target
\* directory yet, with a well-formed --opt and the default patch
InitRerun ==
    /\ TMPDIR = Tmp
    /\ cwd = Cwd0
    /\ pc = "parse"
    /\ \E ids \in SeqsUpTo(Commits, MaxCommits) \ {<<>>}, exes \in ExeLists,
          t \in TgtDirs, r \in RepoDirs, n \in BOOLEAN :
         /\ args = [commitids |-> ids, executables |-> exes, tgtdir |-> t,
                    repodir |-> r, nocopy |-> n, optOk |-> TRUE,
                    patchesArg |-> [given |-> FALSE, list |-> <<>>],
                    patches |-> EmptyMap]
         /\ fs = InitialFs(t, "none")
    /\ log = <<>>
    /\ status = "running"
    /\ i = 0
    /\ e = 0
    /\ reported = FALSE
    /\ sp = SpIdle
    /\ od = OdIdle
    /\ prev = PrevNone

NextRerun == Next \/ Rerun

SpecRerun == InitRerun /\ [][NextRerun]_vars

\* what is stored at d and below it
Subtree(f, d) == [q \in {r \in DOMAIN f : Within(r, d)} |-> f[q]]

\* the revision directory of the k-th identifier, as the loop names it when
\* the working directory is d
CommitDirAt(k, d) == abspath(join(args.tgtdir, args.commitids[k]), d)

\* C11: in a second run with the same target directory and revisions, every
\* revision directory the first run created is left as the first run left it,
\* no build step is run for its revision, and the run ends with status 0.
SecondRunLeavesRevisions ==
    prev.runs = 1 =>
        \A d \in prev.made :
            /\ Subtree(fs, d) = Subtree(prev.fs, d)
            /\ \A k \in LogIdx :
                   log[k].op \in StepOps => CommitDirAt(log[k].idx, log[k].cwd) # d
            /\ pc = "exited" => status = 0

-----------------------------------------------------------------------------
(* Harness of copy_o_files: main() about to collect the objects of a tree *)

\* what a build may have left in the working tree, by path below it: objects
\* at three depths, an executable, and an object in a directory named like one
TreeFiles == {<<"k", ".o">>, <<"s", "/", "k", ".o">>, <<"s", "/", "u", "/", "k", ".o">>,
              <<"s", "/", "k">>, <<"n", ".o", "/", "k", ".o">>}

RECURSIVE WriteAll(_, _, _)
\* the tree at d holding the given files, each with content of its own
WriteAll(f, d, files) ==
    IF files = {} THEN f
    ELSE LET r == CHOOSE x \in files : TRUE
             q == join(d, r)
         IN WriteAll(WriteFile(MkdirP(f, dirname(q)), q,
                               File(IF endswith(r, OBJEXT) THEN "obj" ELSE "exe", r)),
                     d, files \ {r})

InitCopyO ==
    /\ TMPDIR = Tmp
    /\ \E d \in RepoDirs \cup {Cwd0}, t \in {<<"/", "t", "/", "c">>, <<".">>},
          c \in {<<"a">>, <<"b">>}, files \in SUBSET TreeFiles :
         /\ cwd = d
         /\ args = [commitids |-> <<c>>, executables |-> <<ExeK>>, tgtdir |-> t,
                    repodir |-> d, nocopy |-> (d = Cwd0), optOk |-> TRUE,
                    patchesArg |-> [given |-> FALSE, list |-> <<>>],
                    patches |-> EmptyMap]
         /\ fs = WriteAll(MkdirP(MkdirP(FsBase, d), abspath(t, d)), d, files)
    /\ pc = "copy_o"
    /\ log = <<>>
    /\ status = "running"
    /\ i = 1
    /\ e = 0
    /\ reported = FALSE
    /\ sp = SpIdle
    /\ od = OdIdle
    /\ prev = PrevNone

NextCopyO == CopyO

SpecCopyO == InitCopyO /\ [][NextCopyO]_vars

\* the object files below the directory d
ObjectsBelow(f, d) ==
    {p \in DOMAIN f : Within(p, d) /\ p # d /\ f[p].kind # "dir" /\ endswith(p, OBJEXT)}

-----------------------------------------------------------------------------
(* Harness of the validation loop: main() about to validate one identifier *)

\* longest identifier drawn from IdChars
MaxIdLen == 3

\* two hexadecimal digits, a letter that is none, and the characters int()
\* gives a meaning to
IdChars == {"4", "b", "g", "0", "x", "+", "-", "_", " "}

\* the identifiers of the usage examples
Examples == {<<"4", "b", "5", "b", "2", "6", "3">>,
             <<"n", "o", "t", "-", "a", "-", "h", "a", "s", "h", "!">>}

InitValidate ==
    /\ TMPDIR = Tmp
    /\ cwd = Cwd0
    /\ \E S \in SeqsUpTo(IdChars, MaxIdLen) \cup Examples :
         args = [commitids |-> <<S>>, executables |-> <<ExeK>>,
                 tgtdir |-> <<"/", "t", "/", "c">>, repodir |-> <<"/", "t", "/", "r">>,
                 nocopy |-> FALSE, optOk |-> TRUE,
                 patchesArg |-> [given |-> FALSE, list |-> <<>>], patches |-> EmptyMap]
    /\ fs = MkdirP(FsBase, <<"/", "t", "/", "c">>)
    /\ pc = "validate"
    /\ log = <<>>
    /\ status = "running"
    /\ i = 0
    /\ e = 0
    /\ reported = FALSE
    /\ sp = SpIdle
    /\ od = OdIdle
    /\ prev = PrevNone

NextValidate == Validate

SpecValidate == InitValidate /\ [][NextValidate]_vars

\* C13: the validation loop lets an identifier through exactly when it is a
\* hexadecimal token, one or more of 0-9, a-f, A-F and nothing else; a sign,
\* a 0x prefix, an underscore or surrounding whitespace has it rejected.
ValidatorAcceptsExactlyHex ==
    pc # "validate" =>
        ((pc = "guard_repo" /\ status = "running") <=> IsHexToken(args.commitids[1]))

-----------------------------------------------------------------------------
(* The target directory that is already there *)

\* a revision is being processed: its directory made, or a step run for it
RevisionOps == {"makedirs"} \cup StepOps

-----------------------------------------------------------------------------
(* What objdump_all persists for a section *)

\* most lines in the disassembler output that is split
MaxOutLen == 4

\* objdump_all over one object file with every short output, the other
\* object file disassembling to nothing
InitSectionize ==
    /\ TMPDIR = <<"/", "t">>
    /\ cwd = <<"/", "t", "/", "r">>
    /\ sp = SpIdle
    /\ MainIdle
    /\ \E out \in SeqsUpTo(Lines, MaxOutLen) :
         od = [phase |-> "loop", tgtdir |-> AnalysisDir, k |-> 1, out |-> <<out, <<>>>>,
               written |-> {}, dir |-> EmptyMap]

SpecSectionize == InitSectionize /\ [][NextObjdump]_vars

\* the lines of the alphabet that hold the pattern '.rodata'
MentionsRodata == {HdrR, Reloc}

\* the disassembler output of an object file of the harness
OutputOf(obj) == od.out[CHOOSE k \in 1..Len(ObjNames) : ObjNames[k] = obj]

\* the positions of the header lines of an output
Headers(L) == {k \in 1..Len(L) : IsHeader(L[k])}

\* the name of the section the line at position k belongs to: that of the
\* last header line at or before it, the empty name before the first
SectionAt(L, k) ==
    LET hs == {h \in Headers(L) : h <= k}
    IN IF hs = {} THEN <<>>
       ELSE HeaderName(L[CHOOSE h \in hs : \A g \in hs : g <= h])

\* the position of the first header line after position h, or past the end
NextHeader(L, h) ==
    LET hs == {g \in Headers(L) : g > h}
    IN IF hs = {} THEN Len(L) + 1 ELSE CHOOSE g \in hs : \A f \in hs : g <= f

\* the lines that do not hold the pattern, in order
WithoutRodata(L) == SelectSeq(L, LAMBDA line : line \notin MentionsRodata)

\* the segment that starts with the header line at position h
Segment(L, h) == SubSeq(L, h, NextHeader(L, h) - 1)

RECURSIVE LinesNamed(_, _, _)
\* all lines from position k on that belong to a section of the name n
LinesNamed(L, n, k) ==
    IF k > Len(L) THEN <<>>
    ELSE (IF SectionAt(L, k) = n THEN <<L[k]>> ELSE <<>>) \o LinesNamed(L, n, k + 1)

\* C15 as stated: the text persisted for a named section is the segment from
\* that section's header line up to the next header line, without the lines
\* holding '.rodata'; nothing is persisted for the lines before the first
\* header, and no persisted line holds '.rodata'.
PersistedIsOneSegment ==
    \A w \in od.written :
        /\ w.section # <<>>
        /\ \A k \in 1..Len(w.text) : w.text[k] \notin MentionsRodata
        /\ \E h \in Headers(OutputOf(w.obj)) :
               /\ HeaderName(OutputOf(w.obj)[h]) = w.section
               /\ w.text = JoinLines(WithoutRodata(Segment(OutputOf(w.obj), h)))

\* C15 as amended: the text persisted under a section name is, in original
\* order, all lines of the output belonging to a section of that name, over
\* every header line of that name, without the lines holding '.rodata';
\* a name is persisted exactly when one of its lines is kept; nothing is
\* persisted for the lines before the first header, and no persisted line
\* holds '.rodata'.
PersistedIsAllSegmentsOfName ==
    /\ \A w \in od.written :
           /\ w.section # <<>>
           /\ \A k \in 1..Len(w.text) : w.text[k] \notin MentionsRodata
           /\ w.text = JoinLines(WithoutRodata(LinesNamed(OutputOf(w.obj), w.section, 1)))
    /\ \A k \in 1..Len(ObjNames) :
           k < od.k =>
               \A h \in Headers(od.out[k]) :
                   LET n == HeaderName(od.out[k][h])
                   IN WithoutRodata(LinesNamed(od.out[k], n, 1)) # <<>> =>
                          \E w \in od.written : w.obj = ObjNames[k] /\ w.section = n

\* an output held two header lines of one name with a '.rodata' line between
\* them, and the section was persisted as the lines of both without it
C15Witness ==
    \E w \in od.written :
        /\ OutputOf(w.obj) = <<HdrF, Reloc, HdrF, Insn>>
        /\ w.section = <<".text.f">>
        /\ w.text = <<HdrF, "\n", HdrF, "\n", Insn>>

-----------------------------------------------------------------------------
(* The patch of a revision *)

\* the patch the request asks for at position k: the override supplied at
\* that position, else the default patch
PatchOfPosition(k) ==
    IF args.patchesArg.given /\ k <= Len(args.patchesArg.list)
    THEN args.patchesArg.list[k]
    ELSE DEFAULT_PATCH

\* C16: the patch applied when the revision at position i of the request is
\* built is the override supplied at position i, and the default patch when
\* none was supplied there, duplicates among the identifiers allowed.
PatchIsPositional ==
    \A k \in LogIdx :
        log[k].op = "patch" => log[k].arg = PatchOfPosition(log[k].idx)

-----------------------------------------------------------------------------
(* The executables kept for a revision *)

\* the (revision, target) pair an entry of the executable loop is about
PairOf(ev) == <<args.commitids[ev.idx], args.executables[ev.x]>>

\* the copies that were made: unstripped by shutil.copy, stripped by objcopy
ArtifactOps == {"copy_exe", "objcopy"}

\* C17: when a revision has finished its compile step, the artifact store
\* holds for every requested target the unstripped and the stripped copy of
\* the executable built from that target: distinct (revision, target) pairs
\* are kept in distinct files, none replaced by that of another target.
ArtifactPerTarget ==
    /\ \A j, k \in LogIdx :
           (/\ log[j].op \in ArtifactOps /\ log[j].ok
            /\ log[k].op = log[j].op /\ log[k].ok
            /\ PairOf(log[j]) # PairOf(log[k]))
               => AbsOf(log[j]) # AbsOf(log[k])
    /\ (pc = "copy_o" /\ log # <<>> /\ log[Len(log)].op = "objcopy") =>
           \A x \in 1..Len(args.executables) :
               \E k \in LogIdx :
                   /\ log[k].op = "copy_exe" /\ log[k].ok
                   /\ log[k].idx = i /\ log[k].x = x
                   /\ AbsOf(log[k]) \in DOMAIN fs
                   /\ AbsOf(log[k]) \o <<".stripped">> \in DOMAIN fs

-----------------------------------------------------------------------------
(* Where the tree is reset, cleaned and checked out *)

\* the steps that change the working tree
TreeOps == {"reset", "clean", "checkout"}

\* C18: unless --nocopy was given, reset, clean and checkout are run only
\* with the staging directory as working directory, after the repository
\* was copied there and the working directory changed to it; never in the
\* tree the tool was started in.
TreeStepsOnlyInStagedTree ==
    ~args.nocopy =>
        \A k \in LogIdx :
            log[k].op \in TreeOps =>
                /\ log[k].cwd = abspath(args.repodir, Cwd0)
                /\ log[k].cwd # Cwd0
                /\ \E j \in 1..(k - 1) :
                       /\ log[j].op = "chdir"
                       /\ \E h \in 1..(j - 1) : log[h].op \in {"rsync", "cp"} /\ log[h].ok

\* a run without --nocopy has copied the repository with cp and checked out
\* a revision in the copy
C18Witness ==
    /\ ~args.nocopy
    /\ \E k \in LogIdx : log[k].op = "cp" /\ log[k].ok
    /\ \E k \in LogIdx : log[k].op = "checkout" /\ log[k].ok /\ log[k].cwd = Abs(args.repodir)

-----------------------------------------------------------------------------
(* What a revision leaves behind, and the revisions after it *)

\* the paths a revision writes its results to, given an entry of its steps:
\* the analysis directory, the object directory, and the two copies of every
\* executable
ArtifactPaths(ev) ==
    LET c == args.commitids[ev.idx]
        at(p) == abspath(join(args.tgtdir, p), ev.cwd)
    IN {at(c), at(c \o <<".o">>)}
       \cup {at(basename(args.executables[x]) \o <<".">> \o c) :
                 x \in 1..Len(args.executables)}
       \cup {at(basename(args.executables[x]) \o <<".">> \o c \o <<".stripped">>) :
                 x \in 1..Len(args.executables)}

\* the revisions that have finished: their analysis pass has returned
Finished == {k \in LogIdx : log[k].op = "objdump" /\ log[k].ok}

\* C19: once a revision has finished, its analysis directory, its object
\* directory and its executables are not created, changed or deleted by any
\* step run afterwards, reset and clean of a later revision included,
\* whatever the target directory and the staging directory.
FinishedRevisionUntouched ==
    [][\A k \in Finished :
           \A p \in ArtifactPaths(log[k]) : Subtree(fs', p) = Subtree(fs, p)]_vars

-----------------------------------------------------------------------------
(* The objects a revision's snapshot is taken of *)

\* the revision whose loop body is being run
Building == pc \in StepOps /\ i \in 1..Len(args.commitids)

\* C20: when copy_o_files runs for a revision, every object file in the
\* working tree was produced by that revision's own build, none left by the
\* build of an earlier revision or by an earlier run in the same tree; the
\* snapshot taken holds only such objects.
SnapshotOnlyOwnObjects ==
    /\ (Building /\ pc = "copy_o") =>
           \A p \in ObjectsBelow(fs, cwd) : fs[p].rev = commit
    /\ (Building /\ pc = "objdump") =>
           \A p \in ObjectsBelow(fs, Abs(commitdir_obj)) : fs[p].rev = commit

\* the snapshot of a revision has been taken in a tree in which an earlier
\* run had built another revision
C20Witness ==
    /\ prev.runs = 1
    /\ ~args.nocopy
    /\ pc = "objdump"
    /\ \E p \in ObjectsBelow(prev.fs, cwd) : prev.fs[p].rev # commit
    /\ ObjectsBelow(fs, Abs(commitdir_obj)) # {}

====
